---- MODULE Spec2Model ----
(***************************************************************************)
(* Blog storage (MemStorage / DatabaseStorage), the ownership middleware,  *)
(* the REST handlers that use it and the hourly expiry job.                *)
(* Strings that the code transforms (tag names) are sequences of           *)
(* one-character strings; titles and bodies are opaque strings.            *)
(* Dates are integers counting hours.                                      *)
(***************************************************************************)
EXTENDS Integers, Sequences, FiniteSets, TLC

VARIABLES impl, users, posts, tags, postTags, comments,
          postId, tagId, postTagId, commentId,
          now, last, job, req, calls

vars == <<impl, users, posts, tags, postTags, comments,
          postId, tagId, postTagId, commentId, now, last, job, req, calls>>

(***************************************************************************)
(* Bounds of the model.                                                    *)
(***************************************************************************)
MaxPosts == 2
MaxPostTagId == 3
MaxComments == 2
MaxTagNames == 2
MaxNormLen == 3
MaxNow == 26
MaxCreatedAt == 1
MaxFailures == 1
MaxRuns == 2

(***************************************************************************)
(* Program constants.                                                      *)
(***************************************************************************)
SweepHours == 24
HoursPerDay == 24

Range(s) == {s[i] : i \in 1..Len(s)}

RECURSIVE SortedSeq(_)
SortedSeq(S) ==
    IF S = {} THEN <<>>
    ELSE LET m == CHOOSE x \in S : \A y \in S : x <= y
         IN <<m>> \o SortedSeq(S \ {m})

(***************************************************************************)
(* String primitives of the JavaScript runtime.                            *)
(***************************************************************************)
UpperChars == <<"A","B","C","D","E","F","G","H","I","J","K","L","M",
                "N","O","P","Q","R","S","T","U","V","W","X","Y","Z">>
LowerChars == <<"a","b","c","d","e","f","g","h","i","j","k","l","m",
                "n","o","p","q","r","s","t","u","v","w","x","y","z">>
WhiteSpace == {" ", "\t", "\n"}

LowerOf == [c \in Range(UpperChars) |->
               LowerChars[CHOOSE i \in 1..Len(UpperChars) : UpperChars[i] = c]]

toLowerChar(c) == IF c \in DOMAIN LowerOf THEN LowerOf[c] ELSE c

toLowerCase(s) == [i \in 1..Len(s) |-> toLowerChar(s[i])]

RECURSIVE trimStart(_)
trimStart(s) ==
    IF s = <<>> \/ s[1] \notin WhiteSpace THEN s ELSE trimStart(Tail(s))

RECURSIVE trimEnd(_)
trimEnd(s) ==
    IF s = <<>> \/ s[Len(s)] \notin WhiteSpace THEN s
    ELSE trimEnd(SubSeq(s, 1, Len(s) - 1))

trim(s) == trimEnd(trimStart(s))

\* [...new Set(xs)]: first occurrences, in order
RECURSIVE SetSpread(_, _)
SetSpread(xs, acc) ==
    IF xs = <<>> THEN acc
    ELSE SetSpread(Tail(xs),
                   IF Head(xs) \in Range(acc) THEN acc ELSE Append(acc, Head(xs)))

(***************************************************************************)
(* Inputs.                                                                 *)
(***************************************************************************)
Go == <<"G","o">>
GoUpper == <<"G","O">>
GoPadded == <<" ","g","o"," ">>
Empty == <<>>
Blank == <<" ">>
NameB == <<"b">>
NameC == <<"C"," ">>

RawNames == {GoPadded, NameB, NameC}

GoExample == <<Go, GoPadded, GoUpper, Empty>>

TagNameInputs ==
    UNION {[1..n -> RawNames] : n \in 0..MaxTagNames}
        \cup {GoExample, <<Blank>>, <<Empty, NameB>>}

Authors == {1}

\* inputs of the normalization alone
NormRawNames == {Go, GoPadded, GoUpper, Empty, NameB}
NormInputs == UNION {[1..n -> NormRawNames] : n \in 0..MaxNormLen} \cup {GoExample}

\* inputs of the calls that are made next to direct link calls and comments
FewTagNames == {<<NameB>>, <<NameB, NameC>>, <<NameC>>}

UserIds == {1, 2}
PostIds == 1..MaxPosts
Titles == {"T1"}

(***************************************************************************)
(* The store: the five tables and the id generators.                       *)
(***************************************************************************)
Store == [users |-> users, posts |-> posts, tags |-> tags,
          postTags |-> postTags, comments |-> comments,
          postId |-> postId, tagId |-> tagId,
          postTagId |-> postTagId, commentId |-> commentId]

Commit(S) ==
    /\ users' = S.users
    /\ posts' = S.posts
    /\ tags' = S.tags
    /\ postTags' = S.postTags
    /\ comments' = S.comments
    /\ postId' = S.postId
    /\ tagId' = S.tagId
    /\ postTagId' = S.postTagId
    /\ commentId' = S.commentId

Without(f, D) == [k \in DOMAIN f \ D |-> f[k]]

Undefined == 0
NotFound == [found |-> FALSE]

(***************************************************************************)
(* Tag methods.                                                            *)
(***************************************************************************)
createTag(S, name) ==
    [S EXCEPT !.tags = S.tags @@ (S.tagId :> [name |-> name]),
              !.tagId = S.tagId + 1]

\* getTagByName comparing the names as they are
getTagByNameExact(S, name) ==
    LET hits == {t \in DOMAIN S.tags : S.tags[t].name = name}
    IN IF hits = {} THEN Undefined ELSE SortedSeq(hits)[1]

\* the first row, in row order, whose lower-cased name equals the lower-cased argument
getTagByName(S, name) ==
    LET hits == {t \in DOMAIN S.tags :
                    toLowerCase(S.tags[t].name) = toLowerCase(name)}
    IN IF hits = {} THEN Undefined ELSE SortedSeq(hits)[1]

(***************************************************************************)
(* PostTag methods.                                                        *)
(***************************************************************************)
LinksOf(S, pid, tid) ==
    {i \in DOMAIN S.postTags :
        S.postTags[i].postId = pid /\ S.postTags[i].tagId = tid}

insertPostTag(S, pid, tid) ==
    [S EXCEPT !.postTags = S.postTags @@
                             (S.postTagId :> [postId |-> pid, tagId |-> tid]),
              !.postTagId = S.postTagId + 1]

addTagToPost(S, im, pid, tid) ==
    IF im = "db" /\ LinksOf(S, pid, tid) # {}
    THEN S
    ELSE insertPostTag(S, pid, tid)

\* removeTagFromPost deleting the links of the tag on every post
removeTagFromPostEveryPost(S, im, pid, tid) ==
    [S EXCEPT !.postTags = [k \in {i \in DOMAIN S.postTags : S.postTags[i].tagId # tid}
                               |-> S.postTags[k]]]

\* removeTagFromPost deleting the Tag row with the link
removeTagFromPostAndTag(S, im, pid, tid) ==
    [S EXCEPT !.postTags = Without(S.postTags, LinksOf(S, pid, tid)),
              !.tags = Without(S.tags, {tid})]

\* removeTagFromPost deleting the rows of the post whatever their tag
removeTagFromPostAnyTag(S, im, pid, tid) ==
    [S EXCEPT !.postTags = [k \in {i \in DOMAIN S.postTags : S.postTags[i].postId # pid}
                               |-> S.postTags[k]]]

removeTagFromPost(S, im, pid, tid) ==
    LET hits == LinksOf(S, pid, tid)
    IN IF hits = {} THEN S
       ELSE IF im = "mem"
            THEN [S EXCEPT !.postTags = Without(S.postTags, {SortedSeq(hits)[1]})]
            ELSE [S EXCEPT !.postTags = Without(S.postTags, hits)]

\* the Tag rows joined to the PostTag rows of the post, in PostTag row order
getTagsByPostId(S, pid) ==
    LET rows == SortedSeq({i \in DOMAIN S.postTags : S.postTags[i].postId = pid})
        tids == [i \in 1..Len(rows) |-> S.postTags[rows[i]].tagId]
        live(t) == t \in DOMAIN S.tags
        kept == SelectSeq(tids, live)
    IN [i \in 1..Len(kept) |-> [id |-> kept[i], name |-> S.tags[kept[i]].name]]

\* normalizedTags without the trim
normalizedTagsUntrimmed(tagNames) ==
    [i \in 1..Len(tagNames) |-> toLowerCase(tagNames[i])]

normalizedTags(tagNames) ==
    [i \in 1..Len(tagNames) |-> trim(toLowerCase(tagNames[i]))]

uniqueTags(im, tagNames) ==
    LET nonEmpty(t) == t # <<>>
        spread == SetSpread(normalizedTags(tagNames), <<>>)
    IN IF im = "db" THEN SelectSeq(spread, nonEmpty) ELSE spread

\* addNewTags without the test that skips the names linked already
RECURSIVE addNewTagsUnskipped(_, _, _, _, _)
addNewTagsUnskipped(S, im, pid, unique, existingTagNames) ==
    IF unique = <<>> THEN S
    ELSE LET tagName == Head(unique)
             found == getTagByName(S, tagName)
             S1 == IF found = Undefined THEN createTag(S, tagName) ELSE S
             tag == IF found = Undefined THEN S.tagId ELSE found
         IN IF tagName = <<>>
            THEN addNewTagsUnskipped(S, im, pid, Tail(unique), existingTagNames)
            ELSE addNewTagsUnskipped(insertPostTag(S1, pid, tag), im, pid,
                                     Tail(unique), existingTagNames)

RECURSIVE addNewTags(_, _, _, _, _)
addNewTags(S, im, pid, unique, existingTagNames) ==
    IF unique = <<>> THEN S
    ELSE LET tagName == Head(unique)
             found == getTagByName(S, tagName)
             S1 == IF found = Undefined THEN createTag(S, tagName) ELSE S
             tag == IF found = Undefined THEN S.tagId ELSE found
         IN IF tagName = <<>> \/ tagName \in Range(existingTagNames)
            THEN addNewTags(S, im, pid, Tail(unique), existingTagNames)
            ELSE addNewTags(addTagToPost(S1, im, pid, tag), im, pid,
                            Tail(unique), existingTagNames)

\* updatePostTags without its removal loop
removeOldTagsSkipped(S, im, pid, existingTags, unique) == S

RECURSIVE removeOldTags(_, _, _, _, _)
removeOldTags(S, im, pid, existingTags, unique) ==
    IF existingTags = <<>> THEN S
    ELSE LET existingTag == Head(existingTags)
         IN IF toLowerCase(existingTag.name) \notin Range(unique)
            THEN removeOldTags(removeTagFromPost(S, im, pid, existingTag.id),
                               im, pid, Tail(existingTags), unique)
            ELSE removeOldTags(S, im, pid, Tail(existingTags), unique)

Names(ts) == [i \in 1..Len(ts) |-> ts[i].name]

\* the store after the call, and the returned names
updatePostTags(S, im, pid, tagNames) ==
    LET existingTags == getTagsByPostId(S, pid)
        existingTagNames == [i \in 1..Len(existingTags) |->
                                toLowerCase(existingTags[i].name)]
        unique == uniqueTags(im, tagNames)
        S1 == addNewTags(S, im, pid, unique, existingTagNames)
        S2 == removeOldTags(S1, im, pid, existingTags, unique)
    IN [store |-> S2, ret |-> Names(getTagsByPostId(S2, pid))]

(***************************************************************************)
(* Comment methods.                                                        *)
(***************************************************************************)
createComment(S, commentData, authorId, t) ==
    [S EXCEPT !.comments = S.comments @@
                 (S.commentId :> [body |-> commentData.body, authorId |-> authorId,
                                  postId |-> commentData.postId, createdAt |-> t]),
              !.commentId = S.commentId + 1]

getComment(S, id) ==
    IF id \in DOMAIN S.comments
    THEN [found |-> TRUE, id |-> id, authorId |-> S.comments[id].authorId,
          postId |-> S.comments[id].postId, body |-> S.comments[id].body]
    ELSE NotFound

updateComment(S, id, commentData) ==
    IF id \in DOMAIN S.comments /\ commentData.body # ""
    THEN [S EXCEPT !.comments[id].body = commentData.body]
    ELSE S

deleteComment(S, id) == [S EXCEPT !.comments = Without(S.comments, {id})]

CommentsOf(S, pid) == {c \in DOMAIN S.comments : S.comments[c].postId = pid}

RowsOfPost(S, pid) == {i \in DOMAIN S.postTags : S.postTags[i].postId = pid}

\* MemStorage lists the comments whose author row exists, DatabaseStorage all of them
getCommentsByPostId(S, im, pid) ==
    SortedSeq({c \in CommentsOf(S, pid) :
                  im = "db" \/ S.comments[c].authorId \in DOMAIN S.users})

(***************************************************************************)
(* Post methods.                                                           *)
(***************************************************************************)
\* createPost taking the lowest id that no stored post has
createPostReusingIds(S, im, postData, authorId, t) ==
    LET id == CHOOSE i \in 1..S.postId : i \notin DOMAIN S.posts
                                          /\ \A j \in 1..(i - 1) : j \in DOMAIN S.posts
        S0 == [S EXCEPT !.posts = S.posts @@
                           (id :> [title |-> postData.title, body |-> postData.body,
                                   authorId |-> authorId, createdAt |-> t]),
                        !.postId = IF id = S.postId THEN S.postId + 1 ELSE S.postId]
    IN IF Len(postData.tags) > 0
       THEN updatePostTags(S0, im, id, postData.tags).store
       ELSE S0

createPost(S, im, postData, authorId, t) ==
    LET id == S.postId
        S0 == [S EXCEPT !.posts = S.posts @@
                           (id :> [title |-> postData.title, body |-> postData.body,
                                   authorId |-> authorId, createdAt |-> t]),
                        !.postId = S.postId + 1]
    IN IF Len(postData.tags) > 0
       THEN updatePostTags(S0, im, id, postData.tags).store
       ELSE S0

\* getPost without the lookup of the author row
getPostAuthorless(S, im, id) ==
    IF id \notin DOMAIN S.posts THEN NotFound
    ELSE [found |-> TRUE, id |-> id,
          title |-> S.posts[id].title, body |-> S.posts[id].body,
          authorId |-> S.posts[id].authorId, createdAt |-> S.posts[id].createdAt,
          author |-> [id |-> S.posts[id].authorId,
                      name |-> IF S.posts[id].authorId \in DOMAIN S.users
                               THEN S.users[S.posts[id].authorId].name ELSE ""],
          tags |-> Names(getTagsByPostId(S, id)),
          commentCount |-> Cardinality(CommentsOf(S, id))]

getPost(S, im, id) ==
    IF id \notin DOMAIN S.posts THEN NotFound
    ELSE IF S.posts[id].authorId \notin DOMAIN S.users THEN NotFound
    ELSE [found |-> TRUE, id |-> id,
          title |-> S.posts[id].title, body |-> S.posts[id].body,
          authorId |-> S.posts[id].authorId, createdAt |-> S.posts[id].createdAt,
          author |-> [id |-> S.posts[id].authorId,
                      name |-> S.users[S.posts[id].authorId].name],
          tags |-> Names(getTagsByPostId(S, id)),
          commentCount |-> IF im = "db" THEN Cardinality(CommentsOf(S, id))
                           ELSE Len(getCommentsByPostId(S, im, id))]

\* ids of the posts listed for a tag name; DatabaseStorage compares the name as given
getPostsByTag(S, im, tagName) ==
    LET exact == {t \in DOMAIN S.tags : S.tags[t].name = tagName}
        tag == IF im = "mem" THEN getTagByName(S, tagName)
               ELSE IF exact = {} THEN Undefined ELSE SortedSeq(exact)[1]
        rows == SortedSeq({i \in DOMAIN S.postTags : S.postTags[i].tagId = tag})
        pids == [i \in 1..Len(rows) |-> S.postTags[rows[i]].postId]
        retrievable(p) == getPost(S, im, p).found
    IN IF tag = Undefined THEN <<>> ELSE SelectSeq(pids, retrievable)

Reverse(xs) == [i \in 1..Len(xs) |-> xs[Len(xs) + 1 - i]]

\* ids of the posts listed: MemStorage in insertion order, DatabaseStorage newest first
getAllPosts(S, im) ==
    LET rows == SortedSeq(DOMAIN S.posts)
        allPosts == IF im = "mem" THEN rows ELSE Reverse(rows)
        retrievable(p) == getPost(S, im, p).found
    IN SelectSeq(allPosts, retrievable)

getPostsByAuthor(S, im, authorId) ==
    LET rows == SortedSeq({p \in DOMAIN S.posts : S.posts[p].authorId = authorId})
        authorPosts == IF im = "mem" THEN rows ELSE Reverse(rows)
        retrievable(p) == getPost(S, im, p).found
    IN SelectSeq(authorPosts, retrievable)

\* updatePost storing the title and the body it is given, empty or not
updatePostOverwriting(S, im, id, postData) ==
    LET fields == [S EXCEPT !.posts[id].title = postData.title,
                            !.posts[id].body = postData.body]
    IN IF id \notin DOMAIN S.posts THEN S
       ELSE IF Len(postData.tags) > 0
            THEN updatePostTags(fields, im, id, postData.tags).store
            ELSE fields

updatePost(S, im, id, postData) ==
    LET fields == [S EXCEPT
                     !.posts[id].title = IF postData.title # "" THEN postData.title ELSE @,
                     !.posts[id].body = IF postData.body # "" THEN postData.body ELSE @]
    IN IF id \notin DOMAIN S.posts THEN S
       ELSE IF im = "db" /\ postData.title = "" /\ postData.body = "" THEN S
       ELSE IF Len(postData.tags) > 0
            THEN updatePostTags(fields, im, id, postData.tags).store
            ELSE fields

\* deletePost deleting the post row alone
deletePostUncascaded(S, im, id) == [S EXCEPT !.posts = Without(S.posts, {id})]

deletePost(S, im, id) ==
    IF im = "mem" /\ id \notin DOMAIN S.posts THEN S
    ELSE [S EXCEPT
            !.comments = Without(S.comments, CommentsOf(S, id)),
            !.postTags = Without(S.postTags, RowsOfPost(S, id)),
            !.posts = Without(S.posts, {id})]

\* the value deletePost returns: whether a post row was there to delete
deleted(S, id) == id \in DOMAIN S.posts

\* new Date(d).setHours(h): the same day and minutes, hour of day h (h may be negative)
getHours(d) == d % HoursPerDay
setHours(d, h) == (d - getHours(d)) + h

\* the comparison of getPostsOlderThan with the boundary included
olderOrEqual(createdAt, cutoffTime) == createdAt <= cutoffTime

olderThan(createdAt, cutoffTime) == createdAt < cutoffTime

\* getPostsOlderThan with the hours added to the clock
getPostsOlderThanAhead(S, hours, t) ==
    LET cutoffTime == setHours(t, getHours(t) + hours)
    IN SortedSeq({p \in DOMAIN S.posts : olderThan(S.posts[p].createdAt, cutoffTime)})

getPostsOlderThan(S, hours, t) ==
    LET cutoffTime == setHours(t, getHours(t) - hours)
    IN SortedSeq({p \in DOMAIN S.posts : olderThan(S.posts[p].createdAt, cutoffTime)})

(***************************************************************************)
(* Initial state: empty tables, two registered users, idle job.            *)
(***************************************************************************)
NoCall == [op |-> "none", postId |-> 0, names |-> <<>>, ret |-> <<>>, again |-> FALSE,
           comment |-> 0, user |-> 0, status |-> 0,
           title |-> "", body |-> "", ok |-> FALSE]

\* the call just made: its name, its post, the names it was given, what it returned,
\* and whether the call before it was the same call with the same names
Call(op, pid, names, ret) ==
    [op |-> op, postId |-> pid, names |-> names, ret |-> ret,
     again |-> (last.op = op /\ last.postId = pid /\ last.names = names),
     comment |-> 0, user |-> 0, status |-> 0,
     title |-> "", body |-> "", ok |-> FALSE]

IdleJob == [pc |-> "idle", oldPosts |-> <<>>, failures |-> 0]
NoReq == [pc |-> "none", postId |-> 0, user |-> 0]

\* the calls of updatePostTags under way, none at the start
CallIds == {1, 2}
Ended == {"idle", "done", "failed"}
NoCalls ==
    [k \in CallIds |-> [pc |-> "idle", postId |-> 0, tagNames |-> <<>>,
                         existingTags |-> <<>>, uniqueTags |-> <<>>, i |-> 0,
                         tag |-> Undefined, ret |-> <<>>, alone |-> TRUE, runs |-> 0]]

InitStore ==
    /\ impl \in {"mem", "db"}
    /\ users = [u \in UserIds |-> [name |-> "user"]]
    /\ posts = <<>>
    /\ tags = <<>>
    /\ postTags = <<>>
    /\ comments = <<>>
    /\ postId = 1
    /\ tagId = 1
    /\ postTagId = 1
    /\ commentId = 1
    /\ now = 0
    /\ job = IdleJob
    /\ req = NoReq
    /\ calls = NoCalls

Init ==
    /\ InitStore
    /\ last = NoCall

Bounded(S) ==
    /\ S.postTagId <= MaxPostTagId + 1
    /\ S.commentId <= MaxComments + 1
    /\ S.postId <= MaxPosts + 1

(***************************************************************************)
(* Storage calls, one call at a time.                                      *)
(***************************************************************************)
\* createPost; names is what the history keeps of tagNames
CallCreatePostAs(author, tagNames, names) ==
    LET S == createPost(Store, impl, [title |-> "T1", body |-> "B1", tags |-> tagNames],
                        author, now)
    IN /\ Bounded(S)
       /\ Commit(S)
       /\ last' = Call("createPost", postId, names, <<>>)
       /\ UNCHANGED <<impl, now, job, req, calls>>

CallCreatePost(author, tagNames) == CallCreatePostAs(author, tagNames, <<>>)

\* updatePost; names is what the history keeps of tagNames
CallUpdatePostAs(id, title, body, tagNames, names) ==
    LET S == updatePost(Store, impl, id, [title |-> title, body |-> body, tags |-> tagNames])
    IN /\ Bounded(S)
       /\ Commit(S)
       /\ last' = [Call("updatePost", id, names, <<>>)
                     EXCEPT !.title = title, !.body = body]
       /\ UNCHANGED <<impl, now, job, req, calls>>

CallUpdatePost(id, title, body, tagNames) == CallUpdatePostAs(id, title, body, tagNames, <<>>)

CallUpdatePostTags(id, tagNames) ==
    LET r == updatePostTags(Store, impl, id, tagNames)
    IN /\ Bounded(r.store)
       /\ Commit(r.store)
       /\ last' = Call("updatePostTags", id, tagNames, r.ret)
       /\ UNCHANGED <<impl, now, job, req, calls>>

CallAddTagToPost(id, tid) ==
    LET S == addTagToPost(Store, impl, id, tid)
    IN /\ Bounded(S)
       /\ Commit(S)
       /\ last' = Call("addTagToPost", id, <<>>, <<>>)
       /\ UNCHANGED <<impl, now, job, req, calls>>

CallRemoveTagFromPost(id, tid) ==
    /\ Commit(removeTagFromPost(Store, impl, id, tid))
    /\ last' = Call("removeTagFromPost", id, <<>>, <<>>)
    /\ UNCHANGED <<impl, now, job, req, calls>>

CallDeletePost(id) ==
    /\ Commit(deletePost(Store, impl, id))
    /\ last' = [Call("deletePost", id, <<>>, <<>>) EXCEPT !.ok = deleted(Store, id)]
    /\ UNCHANGED <<impl, now, job, req, calls>>

CallCreateComment(pid, author) ==
    LET S == createComment(Store, [body |-> "c", postId |-> pid], author, now)
    IN /\ Bounded(S)
       /\ Commit(S)
       /\ last' = Call("createComment", pid, <<>>, <<>>)
       /\ UNCHANGED <<impl, now, job, req, calls>>

Next ==
    \/ \E a \in Authors, ns \in TagNameInputs : CallCreatePost(a, ns)
    \/ \E p \in PostIds, t \in Titles, ns \in TagNameInputs : CallUpdatePost(p, t, "", ns)
    \/ \E p \in DOMAIN posts, ns \in TagNameInputs : CallUpdatePostTags(p, ns)
    \/ \E p \in PostIds : CallDeletePost(p)

Spec == Init /\ [][Next]_vars

(***************************************************************************)
(* The normalization on its own: a list of names is drawn, de-duplicated,  *)
(* stored with a new post, and reconciled again in another arrangement.    *)
(***************************************************************************)
InitNorm ==
    /\ InitStore
    /\ \E ns \in NormInputs : last = [NoCall EXCEPT !.op = "input", !.names = ns]

NormUniqueTags ==
    /\ last.op = "input"
    /\ last' = [last EXCEPT !.op = "uniqueTags", !.ret = uniqueTags(impl, last.names)]
    /\ UNCHANGED <<impl, users, posts, tags, postTags, comments,
                   postId, tagId, postTagId, commentId, now, job, req, calls>>

NormCreatePost ==
    LET S == createPost(Store, impl, [title |-> "T1", body |-> "B1", tags |-> last.names],
                        1, now)
    IN /\ last.op = "uniqueTags"
       /\ Commit(S)
       /\ last' = [last EXCEPT !.op = "createPost", !.postId = postId,
                               !.ret = Names(getTagsByPostId(S, postId))]
       /\ UNCHANGED <<impl, now, job, req, calls>>

SameNames(ms, ns) == Range(ms) = Range(ns)

NormUpdatePostTags(ms) ==
    LET r == updatePostTags(Store, impl, last.postId, ms)
    IN /\ last.op = "createPost"
       /\ SameNames(ms, last.names)
       /\ Commit(r.store)
       /\ last' = [last EXCEPT !.op = "updatePostTags", !.names = ms, !.ret = r.ret,
                               !.again = TRUE]
       /\ UNCHANGED <<impl, now, job, req, calls>>

NextNorm ==
    \/ NormUniqueTags
    \/ NormCreatePost
    \/ \E ms \in NormInputs : NormUpdatePostTags(ms)

NormSpec == InitNorm /\ [][NextNorm]_vars

(***************************************************************************)
(* The storage calls together with direct link calls.                      *)
(***************************************************************************)
NextLink ==
    \/ \E a \in Authors, ns \in FewTagNames : CallCreatePost(a, ns)
    \/ \E p \in DOMAIN posts, t \in Titles, ns \in FewTagNames : CallUpdatePost(p, t, "", ns)
    \/ \E p \in DOMAIN posts, ns \in FewTagNames : CallUpdatePostTags(p, ns)
    \/ \E p \in DOMAIN posts, t \in DOMAIN tags : CallAddTagToPost(p, t)
    \/ \E p \in DOMAIN posts, t \in DOMAIN tags : CallRemoveTagFromPost(p, t)
    \/ \E p \in PostIds : CallDeletePost(p)

LinkSpec == Init /\ [][NextLink]_vars

(***************************************************************************)
(* Posts with comments and tags, and their deletion.                       *)
(***************************************************************************)
NextDelete ==
    \/ \E a \in Authors, ns \in FewTagNames : CallCreatePost(a, ns)
    \/ \E p \in DOMAIN posts, a \in UserIds : CallCreateComment(p, a)
    \/ \E p \in PostIds : CallDeletePost(p)

DeleteSpec == Init /\ [][NextDelete]_vars

(***************************************************************************)
(* The REST handlers behind authenticateJWT, on DatabaseStorage, one       *)
(* request at a time.  A URL is the sequence of its path segments.         *)
(***************************************************************************)
\* req.baseUrl of a route registered on the application itself: the empty string
baseUrl == <<>>

includes(url, segment) == segment \in Range(url)

Next0 == 0

\* the status the middleware answers with, or Next0 when it calls next()
isAuthor(S, url, resourceId, user) ==
    LET resourceType == IF includes(url, "posts") THEN "post" ELSE "comment"
        post == getPost(S, "db", resourceId)
        comment == getComment(S, resourceId)
    IN IF resourceType = "post"
       THEN IF ~post.found THEN 404
            ELSE IF post.author.id # user THEN 403 ELSE Next0
       ELSE IF ~comment.found THEN 404
            ELSE IF comment.authorId # user THEN 403 ELSE Next0

\* the response to a request; names and body are what the history keeps of the request
AnswerTo(op, pid, cid, user, names, body, status, S) ==
    /\ Bounded(S)
    /\ Commit(S)
    /\ last' = [NoCall EXCEPT !.op = op, !.postId = pid, !.comment = cid,
                              !.user = user, !.status = status,
                              !.names = names, !.body = body]
    /\ UNCHANGED <<impl, now, job, req, calls>>

Answer(op, pid, cid, user, status, S) == AnswerTo(op, pid, cid, user, <<>>, "", status, S)

PostPosts(user, tagNames) ==
    IF Len(tagNames) < 1
    THEN AnswerTo("POST /api/posts", 0, 0, user, tagNames, "", 422, Store)
    ELSE LET S == createPost(Store, "db",
                             [title |-> "T1", body |-> "B1", tags |-> tagNames], user, now)
         IN AnswerTo("POST /api/posts", postId, 0, user, tagNames, "",
                     IF getPost(S, "db", postId).found THEN 201 ELSE 500, S)

PutPost(user, id, title, tagNames) ==
    LET denied == isAuthor(Store, baseUrl, id, user)
        S == updatePost(Store, "db", id, [title |-> title, body |-> "", tags |-> tagNames])
    IN IF denied # Next0 THEN Answer("PUT /api/posts/:id", id, 0, user, denied, Store)
       ELSE Answer("PUT /api/posts/:id", id, 0, user,
                   IF getPost(S, "db", id).found THEN 200 ELSE 404, S)

DeletePost(user, id) ==
    LET denied == isAuthor(Store, baseUrl, id, user)
    IN IF denied # Next0 THEN Answer("DELETE /api/posts/:id", id, 0, user, denied, Store)
       ELSE Answer("DELETE /api/posts/:id", id, 0, user,
                   IF id \in DOMAIN posts THEN 200 ELSE 404, deletePost(Store, "db", id))

PutPostTags(user, id, tagNames) ==
    LET denied == isAuthor(Store, baseUrl, id, user)
    IN IF denied # Next0 THEN Answer("PUT /api/posts/:id/tags", id, 0, user, denied, Store)
       ELSE IF Len(tagNames) < 1
            THEN Answer("PUT /api/posts/:id/tags", id, 0, user, 422, Store)
            ELSE Answer("PUT /api/posts/:id/tags", id, 0, user, 200,
                        updatePostTags(Store, "db", id, tagNames).store)

\* the comment handler without the lookup of the post
PostCommentsUnchecked(user, pid, body) ==
    Answer("POST /api/posts/:postId/comments", pid, commentId, user, 201,
           createComment(Store, [body |-> body, postId |-> pid], user, now))

PostComments(user, pid, body) ==
    IF ~getPost(Store, "db", pid).found
    THEN Answer("POST /api/posts/:postId/comments", pid, 0, user, 404, Store)
    ELSE Answer("POST /api/posts/:postId/comments", pid, commentId, user, 201,
                createComment(Store, [body |-> body, postId |-> pid], user, now))

\* the comment update handler without the validation of the body
PutCommentUnvalidated(user, id, body) ==
    LET denied == isAuthor(Store, baseUrl, id, user)
    IN IF denied # Next0
       THEN AnswerTo("PUT /api/comments/:id", 0, id, user, <<>>, body, denied, Store)
       ELSE AnswerTo("PUT /api/comments/:id", 0, id, user, <<>>, body,
                     IF id \in DOMAIN comments THEN 200 ELSE 404,
                     updateComment(Store, id, [body |-> body]))

PutComment(user, id, body) ==
    LET denied == isAuthor(Store, baseUrl, id, user)
    IN IF denied # Next0
       THEN AnswerTo("PUT /api/comments/:id", 0, id, user, <<>>, body, denied, Store)
       ELSE IF body = ""
            THEN AnswerTo("PUT /api/comments/:id", 0, id, user, <<>>, body, 422, Store)
            ELSE AnswerTo("PUT /api/comments/:id", 0, id, user, <<>>, body,
                          IF id \in DOMAIN comments THEN 200 ELSE 404,
                          updateComment(Store, id, [body |-> body]))

DeleteComment(user, id) ==
    LET denied == isAuthor(Store, baseUrl, id, user)
    IN IF denied # Next0 THEN Answer("DELETE /api/comments/:id", 0, id, user, denied, Store)
       ELSE Answer("DELETE /api/comments/:id", 0, id, user,
                   IF id \in DOMAIN comments THEN 200 ELSE 404, deleteComment(Store, id))

CommentIds == 1..MaxComments
CommentBodies == {"", "c2"}

InitRoutes ==
    /\ Init
    /\ impl = "db"

NextRoutes ==
    \/ \E u \in UserIds, ns \in {<<>>, <<NameB>>} : PostPosts(u, ns)
    \/ \E u \in UserIds, p \in PostIds : PutPost(u, p, "T2", <<>>)
    \/ \E u \in UserIds, p \in PostIds : DeletePost(u, p)
    \/ \E u \in UserIds, p \in PostIds, ns \in {<<>>, <<NameC>>} : PutPostTags(u, p, ns)
    \/ \E u \in UserIds, p \in PostIds : PostComments(u, p, "c1")
    \/ \E u \in UserIds, c \in CommentIds, b \in CommentBodies : PutComment(u, c, b)
    \/ \E u \in UserIds, c \in CommentIds : DeleteComment(u, c)

RouteSpec == InitRoutes /\ [][NextRoutes]_vars

(***************************************************************************)
(* The hourly job, statement by statement, next to requests that create    *)
(* posts and comments, on DatabaseStorage.                                 *)
(***************************************************************************)
\* an hour passes; requests and runs of the job in progress end within the hour
Tick ==
    /\ now < MaxNow
    /\ req.pc = "none"
    /\ job.pc = "idle"
    /\ now' = now + 1
    /\ UNCHANGED <<impl, users, posts, tags, postTags, comments,
                   postId, tagId, postTagId, commentId, last, job, req, calls>>

SweepCreatePost(user) ==
    /\ now <= MaxCreatedAt
    /\ PostPosts(user, <<NameB>>)

\* POST /api/posts/:postId/comments up to its first await: the post is looked up
CommentCheck(user, pid) ==
    /\ req.pc = "none"
    /\ commentId <= MaxComments
    /\ getPost(Store, "db", pid).found
    /\ req' = [pc |-> "checked", postId |-> pid, user |-> user]
    /\ UNCHANGED <<impl, users, posts, tags, postTags, comments,
                   postId, tagId, postTagId, commentId, now, last, job, calls>>

\* the rest of the handler: the comment is inserted
CommentInsert ==
    /\ req.pc = "checked"
    /\ Commit(createComment(Store, [body |-> "c1", postId |-> req.postId], req.user, now))
    /\ last' = [NoCall EXCEPT !.op = "POST /api/posts/:postId/comments",
                              !.postId = req.postId, !.comment = commentId,
                              !.user = req.user, !.status = 201]
    /\ req' = NoReq
    /\ UNCHANGED <<impl, now, job, calls>>

\* the job fires: the expired posts are listed
JobStart ==
    LET oldPosts == getPostsOlderThan(Store, SweepHours, now)
    IN /\ job.pc = "idle"
       /\ job' = [job EXCEPT !.pc = IF Len(oldPosts) > 0 THEN "deleteComments" ELSE "idle",
                             !.oldPosts = oldPosts]
       /\ UNCHANGED <<impl, users, posts, tags, postTags, comments,
                      postId, tagId, postTagId, commentId, now, last, req, calls>>

\* the three statements of deletePost for the first post of the list
JobDeleteComments ==
    /\ job.pc = "deleteComments"
    /\ comments' = Without(comments, CommentsOf(Store, Head(job.oldPosts)))
    /\ job' = [job EXCEPT !.pc = "deletePostTags"]
    /\ UNCHANGED <<impl, users, posts, tags, postTags,
                   postId, tagId, postTagId, commentId, now, last, req, calls>>

JobDeletePostTags ==
    /\ job.pc = "deletePostTags"
    /\ postTags' = Without(postTags, RowsOfPost(Store, Head(job.oldPosts)))
    /\ job' = [job EXCEPT !.pc = "deletePost"]
    /\ UNCHANGED <<impl, users, posts, tags, comments,
                   postId, tagId, postTagId, commentId, now, last, req, calls>>

JobDeletePost ==
    /\ job.pc = "deletePost"
    /\ posts' = Without(posts, {Head(job.oldPosts)})
    /\ job' = [job EXCEPT !.pc = IF Len(job.oldPosts) > 1 THEN "deleteComments" ELSE "idle",
                          !.oldPosts = Tail(job.oldPosts)]
    /\ last' = [NoCall EXCEPT !.op = "deletePost", !.postId = Head(job.oldPosts)]
    /\ UNCHANGED <<impl, users, tags, postTags, comments,
                   postId, tagId, postTagId, commentId, now, req, calls>>

\* a statement of deletePost throws: the catch around the loop ends the run
JobThrow ==
    /\ job.pc \in {"deleteComments", "deletePostTags", "deletePost"}
    /\ job.failures < MaxFailures
    /\ job' = [pc |-> "idle", oldPosts |-> <<>>, failures |-> job.failures + 1]
    /\ UNCHANGED <<impl, users, posts, tags, postTags, comments,
                   postId, tagId, postTagId, commentId, now, last, req, calls>>

InitSweep ==
    /\ Init
    /\ impl = "db"

NextSweep ==
    \/ Tick
    \/ \E u \in Authors : SweepCreatePost(u)
    \/ \E u \in Authors, p \in PostIds : CommentCheck(u, p)
    \/ CommentInsert
    \/ JobStart
    \/ JobDeleteComments
    \/ JobDeletePostTags
    \/ JobDeletePost
    \/ JobThrow

JobFairness ==
    /\ WF_vars(JobStart)
    /\ WF_vars(JobDeleteComments)
    /\ WF_vars(JobDeletePostTags)
    /\ WF_vars(JobDeletePost)
    /\ WF_vars(CommentInsert)

SweepSpec == InitSweep /\ [][NextSweep]_vars /\ JobFairness

(***************************************************************************)
(* Creation of posts through POST /api/posts, and comments on them.        *)
(***************************************************************************)
CreateInputs == {<<>>, <<Blank>>, <<Empty>>, <<Empty, Blank>>, <<NameB>>, <<Blank, NameC>>}

NextCreate ==
    \/ \E u \in UserIds, ns \in CreateInputs : PostPosts(u, ns)
    \/ \E u \in UserIds, p \in PostIds : PostComments(u, p, "c1")

CreateSpec == InitRoutes /\ [][NextCreate]_vars

(***************************************************************************)
(* updatePost and updatePostTags with absent and present fields.           *)
(***************************************************************************)
PostTitles == {"", "T2"}
PostBodies == {"", "B2"}
PostTagInputs == {<<>>, <<Blank>>, <<NameC>>}

NextPost ==
    \/ \E a \in Authors, ns \in FewTagNames : CallCreatePost(a, ns)
    \/ \E p \in PostIds, t \in PostTitles, b \in PostBodies, ns \in PostTagInputs :
          CallUpdatePostAs(p, t, b, ns, ns)
    \/ \E p \in DOMAIN posts, ns \in PostTagInputs : CallUpdatePostTags(p, ns)
    \/ \E p \in PostIds : CallDeletePost(p)

PostSpec == Init /\ [][NextPost]_vars

(***************************************************************************)
(* The storage called with ids of rows that need not exist: authors that   *)
(* are no users, comments on posts that are not stored.                    *)
(***************************************************************************)
NoUser == 3
AnyUserIds == UserIds \cup {NoUser}

NextDirect ==
    \/ \E a \in AnyUserIds, ns \in FewTagNames : CallCreatePost(a, ns)
    \/ \E p \in PostIds, a \in AnyUserIds : CallCreateComment(p, a)
    \/ \E p \in PostIds : CallDeletePost(p)

DirectSpec == Init /\ [][NextDirect]_vars

(***************************************************************************)
(* Tag rows over the life of posts: creation, tag updates, deletion by     *)
(* request and by a run of the hourly job as a whole.                      *)
(***************************************************************************)
Api == <<"A","P","I">>
ApiLower == <<"a","p","i">>
Test == <<"T","e","s","t">>
TestLower == <<"t","e","s","t">>
New == <<"n","e","w">>
ApiExample == <<Api, ApiLower, Test>>
TestNew == <<TestLower, New>>

RECURSIVE deleteEach(_, _, _)
deleteEach(S, im, oldPosts) ==
    IF oldPosts = <<>> THEN S
    ELSE deleteEach(deletePost(S, im, Head(oldPosts)), im, Tail(oldPosts))

\* one run of the job in which no statement throws and nothing else runs
CallSweep ==
    LET oldPosts == getPostsOlderThan(Store, SweepHours, now)
    IN /\ Commit(deleteEach(Store, impl, oldPosts))
       /\ last' = Call("sweep", 0, <<>>, <<>>)
       /\ UNCHANGED <<impl, now, job, req, calls>>

GrowCreatePost(author, tagNames) ==
    /\ now <= MaxCreatedAt
    /\ CallCreatePostAs(author, tagNames, tagNames)

NextGrow ==
    \/ \E a \in Authors, ns \in {ApiExample, <<NameB>>} : GrowCreatePost(a, ns)
    \/ \E p \in DOMAIN posts, ns \in {TestNew, <<NameB>>} : CallUpdatePostTags(p, ns)
    \/ \E p \in DOMAIN posts : CallUpdatePostAs(p, "T2", "", TestNew, TestNew)
    \/ \E p \in PostIds : CallDeletePost(p)
    \/ Tick
    \/ CallSweep

GrowSpec == Init /\ [][NextGrow]_vars

(***************************************************************************)
(* The life of posts: every storage call on stored and on deleted ids,     *)
(* the passing of hours and whole runs of the job.                         *)
(***************************************************************************)
\* a day and an hour pass while no request and no run of the job is under way
Day ==
    /\ now + HoursPerDay + 1 <= MaxNow
    /\ req.pc = "none"
    /\ job.pc = "idle"
    /\ now' = now + HoursPerDay + 1
    /\ UNCHANGED <<impl, users, posts, tags, postTags, comments,
                   postId, tagId, postTagId, commentId, last, job, req, calls>>

NextLife ==
    \/ \E a \in Authors : CallCreatePostAs(a, <<NameB>>, <<NameB>>)
    \/ \E p \in PostIds : CallUpdatePostAs(p, "T2", "", <<>>, <<>>)
    \/ \E p \in PostIds : CallUpdatePostTags(p, <<NameC>>)
    \/ \E p \in PostIds, a \in Authors : CallCreateComment(p, a)
    \/ \E p \in PostIds : CallDeletePost(p)
    \/ Day
    \/ CallSweep

LifeSpec == Init /\ [][NextLife]_vars

(***************************************************************************)
(* Tag updates among posts that share tags and have comments, on stored    *)
(* and on deleted ids.                                                     *)
(***************************************************************************)
FrameTagInputs == {<<>>, <<NameB>>, <<NameC>>}

NextFrame ==
    \/ \E a \in Authors, ns \in {<<NameB>>, <<NameB, NameC>>} : CallCreatePost(a, ns)
    \/ \E p \in PostIds, ns \in FrameTagInputs : CallUpdatePostTags(p, ns)
    \/ \E p \in PostIds, a \in Authors : CallCreateComment(p, a)
    \/ \E p \in PostIds : CallDeletePost(p)

FrameSpec == Init /\ [][NextFrame]_vars

(***************************************************************************)
(* DatabaseStorage.updatePostTags statement by statement: two calls under  *)
(* way at once, each one at one of its awaits.                             *)
(***************************************************************************)
\* updatePostTags that leaves its removal loop out
toRemoveNothing(c, i) == [c EXCEPT !.pc = "return"]

\* the removal loop from index i on, up to its next await
toRemove(c, i) ==
    LET js == {j \in i..Len(c.existingTags) :
                  toLowerCase(c.existingTags[j].name) \notin Range(c.uniqueTags)}
    IN IF js = {}
       THEN [c EXCEPT !.pc = "return"]
       ELSE [c EXCEPT !.pc = "unlink", !.i = CHOOSE j \in js : \A h \in js : j <= h]

\* the loop over uniqueTags from index i on, up to its next await
toAdd(c, i) ==
    LET existingTagNames == [j \in 1..Len(c.existingTags) |->
                                toLowerCase(c.existingTags[j].name)]
        js == {j \in i..Len(c.uniqueTags) : c.uniqueTags[j] \notin Range(existingTagNames)}
    IN IF js = {}
       THEN toRemove(c, 1)
       ELSE [c EXCEPT !.pc = "lookup", !.i = CHOOSE j \in js : \A h \in js : j <= h]

\* the call is made
UptStart(k, pid, tagNames) ==
    LET busy == \E j \in CallIds \ {k} : calls[j].pc \notin Ended
    IN /\ calls[k].pc \in Ended
       /\ calls[k].runs < MaxRuns
       /\ calls' = [j \in CallIds |->
                       IF j = k
                       THEN [NoCalls[k] EXCEPT !.pc = "read", !.postId = pid,
                                               !.tagNames = tagNames, !.alone = ~busy,
                                               !.runs = calls[k].runs + 1]
                       ELSE IF calls[j].pc \notin Ended
                            THEN [calls[j] EXCEPT !.alone = FALSE]
                            ELSE calls[j]]
       /\ UNCHANGED <<impl, users, posts, tags, postTags, comments,
                      postId, tagId, postTagId, commentId, now, last, job, req>>

\* existingTags = await this.getTagsByPostId(postId), and the names made unique
UptRead(k) ==
    LET c == calls[k]
    IN /\ c.pc = "read"
       /\ calls' = [calls EXCEPT ![k] =
                       toAdd([c EXCEPT !.existingTags = getTagsByPostId(Store, c.postId),
                                       !.uniqueTags = uniqueTags("db", c.tagNames)], 1)]
       /\ UNCHANGED <<impl, users, posts, tags, postTags, comments,
                      postId, tagId, postTagId, commentId, now, last, job, req>>

\* tag = await this.getTagByName(tagName)
UptLookup(k) ==
    LET c == calls[k]
        tag == getTagByName(Store, c.uniqueTags[c.i])
    IN /\ c.pc = "lookup"
       /\ calls' = [calls EXCEPT ![k] =
                       [c EXCEPT !.tag = tag,
                                 !.pc = IF tag = Undefined THEN "create" ELSE "check"]]
       /\ UNCHANGED <<impl, users, posts, tags, postTags, comments,
                      postId, tagId, postTagId, commentId, now, last, job, req>>

\* tag = await this.createTag({ name: tagName }): the insert is refused when a row has
\* the name, and the error leaves updatePostTags
UptCreate(k) ==
    LET c == calls[k]
        tagName == c.uniqueTags[c.i]
    IN /\ c.pc = "create"
       /\ IF \E t \in DOMAIN tags : tags[t].name = tagName
          THEN /\ calls' = [calls EXCEPT ![k] = [c EXCEPT !.pc = "failed"]]
               /\ UNCHANGED <<users, posts, tags, postTags, comments,
                              postId, tagId, postTagId, commentId>>
          ELSE /\ Commit(createTag(Store, tagName))
               /\ calls' = [calls EXCEPT ![k] = [c EXCEPT !.tag = tagId, !.pc = "check"]]
       /\ UNCHANGED <<impl, now, last, job, req>>

\* addTagToPost up to its insert: the select of the row of the post and the tag
UptCheck(k) ==
    LET c == calls[k]
    IN /\ c.pc = "check"
       /\ calls' = [calls EXCEPT ![k] =
                       IF LinksOf(Store, c.postId, c.tag) # {}
                       THEN toAdd(c, c.i + 1)
                       ELSE [c EXCEPT !.pc = "insert"]]
       /\ UNCHANGED <<impl, users, posts, tags, postTags, comments,
                      postId, tagId, postTagId, commentId, now, last, job, req>>

\* the insert of addTagToPost
UptInsert(k) ==
    LET c == calls[k]
        S == insertPostTag(Store, c.postId, c.tag)
    IN /\ c.pc = "insert"
       /\ Bounded(S)
       /\ Commit(S)
       /\ calls' = [calls EXCEPT ![k] = toAdd(c, c.i + 1)]
       /\ UNCHANGED <<impl, now, last, job, req>>

\* await this.removeTagFromPost(postId, existingTag.id)
UptUnlink(k) ==
    LET c == calls[k]
    IN /\ c.pc = "unlink"
       /\ Commit(removeTagFromPost(Store, "db", c.postId, c.existingTags[c.i].id))
       /\ calls' = [calls EXCEPT ![k] = toRemove(c, c.i + 1)]
       /\ UNCHANGED <<impl, now, last, job, req>>

\* updatedTags = await this.getTagsByPostId(postId), and the return
UptReturn(k) ==
    LET c == calls[k]
    IN /\ c.pc = "return"
       /\ calls' = [calls EXCEPT ![k] =
                       [c EXCEPT !.ret = Names(getTagsByPostId(Store, c.postId)),
                                 !.pc = "done"]]
       /\ UNCHANGED <<impl, users, posts, tags, postTags, comments,
                      postId, tagId, postTagId, commentId, now, last, job, req>>

\* posts are created before the first call is made
RaceCreatePost(author, tagNames) ==
    /\ \A k \in CallIds : calls[k].pc = "idle"
    /\ CallCreatePost(author, tagNames)

InitRace ==
    /\ Init
    /\ impl = "db"

NextRace ==
    \/ \E a \in Authors : RaceCreatePost(a, <<Go>>)
    \/ \E k \in CallIds, p \in DOMAIN posts, ns \in {<<NameB>>, <<NameC>>} : UptStart(k, p, ns)
    \/ \E k \in CallIds : UptRead(k)
    \/ \E k \in CallIds : UptLookup(k)
    \/ \E k \in CallIds : UptCreate(k)
    \/ \E k \in CallIds : UptCheck(k)
    \/ \E k \in CallIds : UptInsert(k)
    \/ \E k \in CallIds : UptUnlink(k)
    \/ \E k \in CallIds : UptReturn(k)

RaceSpec == InitRace /\ [][NextRace]_vars

(***************************************************************************)
(* The hourly job, statement by statement, next to requests that create,   *)
(* update and delete posts at any hour.                                    *)
(***************************************************************************)
NextExpiry ==
    \/ Tick
    \/ \E u \in Authors : PostPosts(u, <<NameB>>)
    \/ \E p \in PostIds : CallUpdatePost(p, "T2", "", <<>>)
    \/ \E p \in PostIds : CallDeletePost(p)
    \/ JobStart
    \/ JobDeleteComments
    \/ JobDeletePostTags
    \/ JobDeletePost
    \/ JobThrow

ExpirySpec == InitSweep /\ [][NextExpiry]_vars

(***************************************************************************)
(* Vocabulary of the properties.                                           *)
(***************************************************************************)
\* the canonical set of a list of names: lower-cased, trimmed, non-empty
Normalize(tagNames) ==
    {trim(toLowerCase(tagNames[i])) : i \in 1..Len(tagNames)} \ {<<>>}

\* the names of the Tag rows linked to a post
TagNameSet(S, p) == Range(Names(getTagsByPostId(S, p)))

\* the rows of post p that link a tag whose name is in the set N
RowsNamed(S, p, N) ==
    {i \in RowsOfPost(S, p) : /\ S.postTags[i].tagId \in DOMAIN S.tags
                          /\ S.tags[S.postTags[i].tagId].name \in N}

NameGo == <<"g","o">>
NameLowerC == <<"c">>

\* C1: after updatePostTags on an existing post with names whose normalization is not
\* empty, the names linked to the post are exactly the normalized names, and so is the
\* returned list, whatever was linked before
C1_TagSetIsNormalizedInput ==
    (last.op = "updatePostTags" /\ last.postId \in DOMAIN posts
                                /\ Normalize(last.names) # {})
        => /\ TagNameSet(Store, last.postId) = Normalize(last.names)
           /\ Range(last.ret) = Normalize(last.names)

\* a post that was linked to other names is now linked to b and c by updatePostTags
C1_Witness ==
    /\ last.op = "updatePostTags"
    /\ last.postId \in DOMAIN posts
    /\ Range(last.ret) = {NameB, NameLowerC}
    /\ TagNameSet(Store, last.postId) = {NameB, NameLowerC}
    /\ \E t \in DOMAIN tags : tags[t].name = NameGo
    /\ LinksOf(Store, last.postId, getTagByName(Store, NameGo)) = {}
    /\ 1 \notin DOMAIN postTags

\* C3: no two Tag rows have names equal ignoring case, and names that differ only in
\* case resolve to the same row
LookupNames == {Go, GoUpper, NameGo, NameB, <<"B">>, NameLowerC, <<"C">>}

C3_TagNamesUniqueIgnoringCase ==
    /\ \A t1, t2 \in DOMAIN tags :
          toLowerCase(tags[t1].name) = toLowerCase(tags[t2].name) => t1 = t2
    /\ \A n1, n2 \in LookupNames :
          toLowerCase(n1) = toLowerCase(n2)
              => getTagByName(Store, n1) = getTagByName(Store, n2)

\* two posts are linked to the one Tag row "go", which "Go" and "GO" resolve to
C3_Witness ==
    /\ getTagByName(Store, Go) # Undefined
    /\ getTagByName(Store, GoUpper) = getTagByName(Store, Go)
    /\ \E p1, p2 \in DOMAIN posts :
          /\ p1 # p2
          /\ LinksOf(Store, p1, getTagByName(Store, Go)) # {}
          /\ LinksOf(Store, p2, getTagByName(Store, Go)) # {}

\* C8: a second updatePostTags on the same post with the same names changes nothing:
\* same Tag rows, same PostTag rows with the same ids, same returned names
C8_SecondReconcileIsNoOp ==
    [][(last'.op = "updatePostTags" /\ last'.again)
          => /\ UNCHANGED <<posts, tags, postTags, comments, tagId, postTagId>>
             /\ last'.ret = last.ret]_vars

\* the same two names were reconciled twice in a row onto a post
C8_Witness ==
    /\ last.op = "updatePostTags"
    /\ last.again
    /\ Cardinality(Normalize(last.names)) = 2
    /\ Cardinality(RowsOfPost(Store, last.postId)) = 2

\* C9: updatePostTags from the linked set C to the desired set D deletes exactly the
\* rows of C minus D, creates exactly one row for each name of D minus C, and leaves
\* every other row, those of C and D in particular, as it was
C9_MinimalDelta ==
    [][(last'.op = "updatePostTags" /\ last'.postId \in DOMAIN posts)
          => LET p == last'.postId
                 C == TagNameSet(Store, p)
                 D == Normalize(last'.names)
                 removed == DOMAIN postTags \ DOMAIN postTags'
                 added == DOMAIN postTags' \ DOMAIN postTags
             IN /\ removed = RowsNamed(Store, p, C \ D)
                /\ added = RowsNamed(Store', p, D \ C)
                /\ \A n \in D \ C : Cardinality(RowsNamed(Store', p, {n})) = 1
                /\ \A i \in DOMAIN postTags \cap DOMAIN postTags' :
                      postTags'[i] = postTags[i]
                /\ TagNameSet(Store', p) = D]_vars

\* {go, b} was reconciled to {b, c}: the row of go is gone, the row of b is the old
\* one, the row of c is new
C9_Witness ==
    /\ last.op = "updatePostTags"
    /\ last.postId = 1
    /\ DOMAIN postTags = {2, 3}
    /\ postTags[2].postId = 1 /\ tags[postTags[2].tagId].name = NameB
    /\ postTags[3].postId = 1 /\ tags[postTags[3].tagId].name = NameLowerC
    /\ getTagByName(Store, NameGo) = 1

\* C2: no two PostTag rows have the same (postId, tagId); adding a link that exists
\* already adds no row
C2_NoDuplicateLinks ==
    \A i, j \in DOMAIN postTags :
        (postTags[i].postId = postTags[j].postId /\ postTags[i].tagId = postTags[j].tagId)
            => i = j

\* C5: deletePost of an existing post leaves no Comment and no PostTag row of that post,
\* the post is not found any more and is listed under none of the tags it had, and the
\* comments and PostTag rows of the other posts are as they were
C5_DeleteCascades ==
    [][(last'.op = "deletePost" /\ last'.postId \in DOMAIN posts)
          => LET id == last'.postId
             IN /\ CommentsOf(Store', id) = {}
                /\ RowsOfPost(Store', id) = {}
                /\ ~getPost(Store', impl, id).found
                /\ \A t \in DOMAIN tags :
                      LinksOf(Store, id, t) # {}
                          => id \notin Range(getPostsByTag(Store', impl, tags[t].name))
                /\ comments' = Without(comments, CommentsOf(Store, id))
                /\ postTags' = Without(postTags, RowsOfPost(Store, id))
                /\ posts' = Without(posts, {id})
                /\ tags' = tags]_vars

\* a post that had a comment and a link was deleted, and another post keeps its
\* comment and its link
C5_Witness ==
    /\ last.op = "deletePost"
    /\ last.postId = 1
    /\ 1 \notin DOMAIN posts
    /\ 2 \in DOMAIN posts
    /\ CommentsOf(Store, 2) # {}
    /\ RowsOfPost(Store, 2) # {}
    /\ 1 \notin DOMAIN comments /\ commentId > 2
    /\ 1 \notin DOMAIN postTags

NoDuplicates(xs) == \A i, j \in 1..Len(xs) : xs[i] = xs[j] => i = j

\* C7: the names updatePostTags works on are the given names lower-cased and trimmed,
\* without the empty ones and without duplicates; they are the same set for every
\* rearrangement and repetition of the given names; reconciling a post with a
\* rearrangement of the names it was created with changes no row; no Tag row has the
\* empty name
C7_NormalizationIsCanonical ==
    /\ last.op = "uniqueTags"
          => /\ Range(last.ret) \ {<<>>} = Normalize(last.names)
             /\ NoDuplicates(last.ret)
             /\ \A ms \in NormInputs :
                   SameNames(ms, last.names)
                       => Range(uniqueTags(impl, ms)) \ {<<>>} = Range(last.ret) \ {<<>>}
             /\ last.names = GoExample => Range(last.ret) \ {<<>>} = {NameGo}
    /\ last.op \in {"createPost", "updatePostTags"}
          => /\ Range(last.ret) = Normalize(last.names)
             /\ TagNameSet(Store, last.postId) = Normalize(last.names)
             /\ Cardinality(RowsOfPost(Store, last.postId)) = Cardinality(Normalize(last.names))
             /\ \A i \in DOMAIN postTags : i < Cardinality(Normalize(last.names)) + 1
    /\ \A t \in DOMAIN tags :
          tags[t].name # <<>> /\ tags[t].name = trim(toLowerCase(tags[t].name))

\* the post created with "Go", " go ", "GO", "" is linked to the single tag "go"
C7_Witness ==
    /\ last.op = "updatePostTags"
    /\ last.names = GoExample
    /\ TagNameSet(Store, last.postId) = {NameGo}
    /\ Cardinality(DOMAIN tags) = 1

\* C6: an update or delete request on a post or a comment by a user who is not its
\* author is answered 403 and changes nothing; the same request by its author passes
\* the ownership check
PostRoutes == {"PUT /api/posts/:id", "DELETE /api/posts/:id", "PUT /api/posts/:id/tags"}
CommentRoutes == {"PUT /api/comments/:id", "DELETE /api/comments/:id"}

C6_OnlyTheAuthorModifies ==
    [][/\ (last'.op \in PostRoutes /\ last'.postId \in DOMAIN posts)
              => IF posts[last'.postId].authorId # last'.user
                 THEN /\ last'.status = 403
                      /\ UNCHANGED <<posts, tags, postTags, comments>>
                 ELSE last'.status \in {200, 422}
       /\ (last'.op \in CommentRoutes /\ last'.comment \in DOMAIN comments)
              => IF comments[last'.comment].authorId # last'.user
                 THEN /\ last'.status = 403
                      /\ UNCHANGED <<posts, tags, postTags, comments>>
                 ELSE last'.status \in {200, 422}]_vars

\* C4: a post older than 24 hours is eventually gone, with every Comment and every
\* PostTag row of it
Expired(p) == p \in DOMAIN posts /\ posts[p].createdAt < now - SweepHours

Gone(p) ==
    /\ p \notin DOMAIN posts
    /\ CommentsOf(Store, p) = {}
    /\ RowsOfPost(Store, p) = {}

C4_ExpiredPostsAreRemoved == \A p \in PostIds : Expired(p) ~> Gone(p)

\* C10: getPostsOlderThan(h) at clock value T lists exactly the posts created before
\* T - h; a post created at T - h is not listed
HourInputs == {0, 1, 23, 24, 25}

C10_StrictlyOlder ==
    \A h \in HourInputs :
        /\ Range(getPostsOlderThan(Store, h, now))
              = {p \in DOMAIN posts : posts[p].createdAt < now - h}
        /\ \A p \in DOMAIN posts :
              posts[p].createdAt = now - h
                  => p \notin Range(getPostsOlderThan(Store, h, now))

\* 25 hours in, the job has listed the post created at hour 0 and not the one created
\* at hour 1, which is exactly 24 hours old
C10_Witness ==
    /\ now = 25
    /\ job.pc = "deleteComments"
    /\ job.oldPosts = <<1>>
    /\ DOMAIN posts = {1, 2}
    /\ posts[1].createdAt = 0
    /\ posts[2].createdAt = 1

\* C11: when a statement of deletePost throws during a run of the job, the run goes on
\* with the posts listed after the failing one
Running == {"deleteComments", "deletePostTags", "deletePost"}

C11_FailureDoesNotAbortTheBatch ==
    [][(job.pc \in Running /\ job'.failures > job.failures)
          => /\ job'.oldPosts = Tail(job.oldPosts)
             /\ Len(job.oldPosts) > 1 => job'.pc = "deleteComments"]_vars

\* C12: POST /api/posts with tags that normalize to the empty set is answered 422 and
\* stores no post; a post that was created has at least one linked tag
C12_NoPostWithoutTags ==
    [][last'.op = "POST /api/posts"
          => /\ Normalize(last'.names) = {} => (last'.status = 422 /\ posts' = posts)
             /\ last'.status = 201 => RowsOfPost(Store', last'.postId) # {}]_vars

\* C13: updatePost replaces the title (the body) by a non-empty given one and keeps the
\* stored one otherwise; it changes no authorId, no createdAt, no id and no other post
C13_OnlySuppliedFieldsChange ==
    [][(last'.op = "updatePost" /\ last'.postId \in DOMAIN posts)
          => LET p == last'.postId
             IN /\ DOMAIN posts' = DOMAIN posts
                /\ posts'[p].title = IF last'.title # "" THEN last'.title ELSE posts[p].title
                /\ posts'[p].body = IF last'.body # "" THEN last'.body ELSE posts[p].body
                /\ posts'[p].title # "" /\ posts'[p].body # ""
                /\ posts'[p].authorId = posts[p].authorId
                /\ posts'[p].createdAt = posts[p].createdAt
                /\ \A q \in DOMAIN posts \ {p} : posts'[q] = posts[q]]_vars

\* the body of a post was replaced and its title, given empty, was kept
C13_Witness ==
    /\ last.op = "updatePost"
    /\ last.title = "" /\ last.body = "B2"
    /\ last.postId \in DOMAIN posts
    /\ posts[last.postId].title = "T1"
    /\ posts[last.postId].body = "B2"

\* C14: a tag update whose names normalize to the empty set leaves the links of the
\* post as they were
C14_EmptyTagUpdateKeepsLinks ==
    [][(/\ last'.op \in {"updatePost", "updatePostTags"}
        /\ last'.postId \in DOMAIN posts
        /\ Normalize(last'.names) = {})
          => postTags' = postTags]_vars

\* C15: deletePost of an id that is no stored post returns false and changes no table;
\* deletePost of a stored post returns true
C15_DeleteOfMissingPostChangesNothing ==
    [][last'.op = "deletePost"
          => IF last'.postId \in DOMAIN posts
             THEN last'.ok
             ELSE ~last'.ok /\ UNCHANGED <<posts, comments, postTags, tags>>]_vars

\* C16: a post whose author row is missing is not found by getPost and is listed by
\* none of getAllPosts, getPostsByAuthor, getPostsByTag; a post whose author row exists
\* is found with the author's id and name, the names of its tags and the number of
\* its comments
Retrievable(S, p) == p \in DOMAIN S.posts /\ S.posts[p].authorId \in DOMAIN S.users

LinkedIgnoringCase(S, n) ==
    {p \in DOMAIN S.posts :
        /\ Retrievable(S, p)
        /\ \E t \in DOMAIN S.tags : /\ toLowerCase(S.tags[t].name) = toLowerCase(n)
                                   /\ LinksOf(S, p, t) # {}}

C17_PostsByTagIgnoresCase ==
    \A n \in LookupNames :
        /\ Range(getPostsByTag(Store, impl, n)) = LinkedIgnoringCase(Store, n)
        /\ Range(getPostsByTag(Store, "mem", n)) = Range(getPostsByTag(Store, "db", n))

\* C18: POST /api/posts/:postId/comments on a post that is not retrievable is answered
\* 404 and adds no comment; on a retrievable post it adds exactly one comment, of that
\* post and of the requesting user, and changes no other comment
C18_CommentsOnlyOnExistingPosts ==
    [][last'.op = "POST /api/posts/:postId/comments"
          => IF Retrievable(Store, last'.postId)
             THEN /\ last'.status = 201
                  /\ DOMAIN comments' = DOMAIN comments \cup {last'.comment}
                  /\ last'.comment \notin DOMAIN comments
                  /\ comments'[last'.comment].postId = last'.postId
                  /\ comments'[last'.comment].authorId = last'.user
                  /\ \A c \in DOMAIN comments : comments'[c] = comments[c]
             ELSE /\ last'.status = 404
                  /\ comments' = comments]_vars

\* user 2 commented on the post of user 1
C18_Witness ==
    /\ last.op = "POST /api/posts/:postId/comments"
    /\ last.status = 201
    /\ last.user = 2
    /\ last.postId \in DOMAIN posts
    /\ posts[last.postId].authorId = 1
    /\ comments[last.comment].authorId = 2
    /\ comments[last.comment].postId = last.postId

\* C19: PUT /api/comments/:id with an empty body never changes a comment and is never
\* answered 200; the comment's author is answered 422.  With a non-empty body the
\* author's request is answered 200 and changes the body of that comment alone
C19_EmptyCommentBodyIsRejected ==
    [][(last'.op = "PUT /api/comments/:id" /\ last'.comment \in DOMAIN comments)
          => LET c == last'.comment
             IN /\ last'.body = ""
                   => /\ comments' = comments
                      /\ last'.status # 200
                      /\ comments[c].authorId = last'.user => last'.status = 422
                /\ (last'.body # "" /\ comments[c].authorId = last'.user)
                   => /\ last'.status = 200
                      /\ comments' = [comments EXCEPT ![c].body = last'.body]]_vars

\* a comment carries the body its author sent
C19_Witness ==
    /\ last.op = "PUT /api/comments/:id"
    /\ last.status = 200
    /\ last.body = "c2"
    /\ last.comment \in DOMAIN comments
    /\ comments[last.comment].body = "c2"
    /\ comments[last.comment].authorId = last.user

\* C20: no step removes or changes a Tag row.  A post created with "API", "api", "Test"
\* is linked to api and test; updated to "test", "new" it is linked to test and new,
\* and the Tag row api is still there, linked to that post no more
NameApi == ApiLower
NameTest == TestLower

C20_TagRowsOnlyGrow ==
    [][/\ \A t \in DOMAIN tags : t \in DOMAIN tags' /\ tags'[t] = tags[t]
       /\ (last'.op = "createPost" /\ last'.names = ApiExample)
             => TagNameSet(Store', last'.postId) = {NameApi, NameTest}
       /\ (/\ last'.op \in {"updatePost", "updatePostTags"}
           /\ last'.names = TestNew
           /\ TagNameSet(Store, last'.postId) = {NameApi, NameTest})
             => /\ TagNameSet(Store', last'.postId) = {NameTest, New}
                /\ \E t \in DOMAIN tags' : /\ tags'[t].name = NameApi
                                          /\ LinksOf(Store', last'.postId, t) = {}]_vars

\* the Tag row api is stored and no PostTag row refers to it, after the update of the
\* only post to test and new
C20_Witness ==
    /\ last.op = "updatePostTags"
    /\ last.names = TestNew
    /\ TagNameSet(Store, last.postId) = {NameTest, New}
    /\ \E t \in DOMAIN tags : /\ tags[t].name = NameApi
                             /\ \A i \in DOMAIN postTags : postTags[i].tagId # t

\* C21: a post that was deleted is never stored again: no step adds a post under an
\* id that was given out before, whatever the step is, and createPost gives out a new id
C21_DeletedIsTerminal ==
    [][/\ \A p \in PostIds :
             (p < postId /\ p \notin DOMAIN posts)
                 => (p \notin DOMAIN posts' /\ ~getPost(Store', impl, p).found)
       /\ DOMAIN posts' \ DOMAIN posts \subseteq {postId}
       /\ postId' >= postId
       /\ \A p \in DOMAIN posts' : p < postId']_vars

\* post 1 was deleted and post 2 was created after that
C21_Witness ==
    /\ last.op = "createPost"
    /\ last.postId = 2
    /\ DOMAIN posts = {2}
    /\ postId = 3

\* C30: updatePostTags on post P adds and removes PostTag rows of P only, adds Tag rows
\* and removes none, and changes no Post, Comment or User row
C30_OtherPostsUntouched ==
    [][last'.op = "updatePostTags"
          => LET p == last'.postId
             IN /\ \A i \in DOMAIN postTags :
                      postTags[i].postId # p => (i \in DOMAIN postTags' /\ postTags'[i] = postTags[i])
                /\ \A i \in DOMAIN postTags' :
                      postTags'[i].postId # p => i \in DOMAIN postTags
                /\ \A q \in PostIds \ {p} : TagNameSet(Store', q) = TagNameSet(Store, q)
                /\ \A t \in DOMAIN tags : t \in DOMAIN tags' /\ tags'[t] = tags[t]
                /\ UNCHANGED <<posts, comments, users>>]_vars

\* posts 1 and 2 were both linked to b; post 1 was reconciled to c and post 2, which
\* has a comment, is still linked to b
C30_Witness ==
    /\ last.op = "updatePostTags"
    /\ last.postId = 1
    /\ DOMAIN posts = {1, 2}
    /\ TagNameSet(Store, 1) = {NameLowerC}
    /\ TagNameSet(Store, 2) = {NameB}
    /\ CommentsOf(Store, 2) # {}
    /\ DOMAIN postTags = {2, 3}

\* C22: every Comment row and every PostTag row names a stored post, in every state
\* that the request handlers and deletePost reach, their statements interleaved
C22_NoOrphanRows ==
    /\ \A c \in DOMAIN comments : comments[c].postId \in DOMAIN posts
    /\ \A i \in DOMAIN postTags : postTags[i].postId \in DOMAIN posts

\* C23: a call of updatePostTags that no other call overlapped returns, and leaves
\* linked, exactly its own normalized names, and it does not fail
C23_SerialCallsLastWins ==
    \A k \in CallIds :
        calls[k].alone
            => /\ calls[k].pc # "failed"
               /\ calls[k].pc = "done"
                     => Range(calls[k].ret) = Normalize(calls[k].tagNames)

\* two calls on one post with different names read the same links before either wrote;
\* both returned and the post is linked to the names of neither
C23_Witness ==
    /\ \A k \in CallIds : calls[k].pc = "done" /\ ~calls[k].alone /\ calls[k].postId = 1
    /\ calls[1].existingTags = calls[2].existingTags
    /\ calls[1].existingTags # <<>>
    /\ Normalize(calls[1].tagNames) # Normalize(calls[2].tagNames)
    /\ TagNameSet(Store, 1) # Normalize(calls[1].tagNames)
    /\ TagNameSet(Store, 1) # Normalize(calls[2].tagNames)

\* C24: calls of updatePostTags under way at once leave no two Tag rows with one
\* canonical name and no two PostTag rows with one post and one tag
C24_NoDuplicatesUnderRaces ==
    /\ \A t1, t2 \in DOMAIN tags :
          toLowerCase(tags[t1].name) = toLowerCase(tags[t2].name) => t1 = t2
    /\ \A i, j \in DOMAIN postTags : postTags[i] = postTags[j] => i = j

\* C25: a call of updatePostTags whose createTag is refused, because another call
\* inserted the name after the lookup, goes on with the stored row and does not fail
C25_RefusedCreateIsRecovered ==
    [][\A k \in CallIds :
          (calls[k].pc = "create"
              /\ \E t \in DOMAIN tags : tags[t].name = calls[k].uniqueTags[calls[k].i]
              /\ calls'[k] # calls[k])
          => /\ calls'[k].pc = "check"
             /\ calls'[k].tag = getTagByName(Store, calls[k].uniqueTags[calls[k].i])]_vars

\* C26: updatePost on a stored post with tag names whose normalization is not empty
\* leaves the post linked to exactly the normalized names, with and without a title or
\* a body, and MemStorage and DatabaseStorage leave the same names from the same store
C26_TagsReconciledWithoutFields ==
    [][(/\ last'.op = "updatePost"
        /\ last'.postId \in DOMAIN posts
        /\ Normalize(last'.names) # {})
          => LET p == last'.postId
                 postData == [title |-> last'.title, body |-> last'.body,
                              tags |-> last'.names]
             IN /\ TagNameSet(Store', p) = Normalize(last'.names)
                /\ TagNameSet(updatePost(Store, "mem", p, postData), p)
                      = TagNameSet(updatePost(Store, "db", p, postData), p)]_vars

\* C27: a request of a post route is answered 404 only when the post is not stored,
\* 403 only when the post is another user's, and passes only for the author of the
\* post; a request of a comment route is judged in the same way by the comment
C27_ResourceChosenByRoute ==
    [][/\ last'.op \in PostRoutes
          => LET p == last'.postId
             IN /\ last'.status = 404 => ~Retrievable(Store, p)
                /\ last'.status = 403
                      => Retrievable(Store, p) /\ posts[p].authorId # last'.user
                /\ last'.status \in {200, 422}
                      => Retrievable(Store, p) /\ posts[p].authorId = last'.user
       /\ last'.op \in CommentRoutes
          => LET c == last'.comment
             IN /\ last'.status = 404 => c \notin DOMAIN comments
                /\ last'.status = 403
                      => c \in DOMAIN comments /\ comments[c].authorId # last'.user
                /\ last'.status \in {200, 422}
                      => c \in DOMAIN comments /\ comments[c].authorId = last'.user]_vars

\* C29: a request answered 401, 403, 404 or 422 leaves every table as it was
ErrorStatuses == {401, 403, 404, 422}

C29_ErrorResponsesChangeNothing ==
    [][last'.status \in ErrorStatuses
          => UNCHANGED <<users, posts, tags, postTags, comments>>]_vars

\* C28: every statement of deletePost that the job runs is for a post that, if it
\* is still stored, was created more than 24 hours before the run listed it, whatever
\* requests created, updated or deleted between the listing and the statement
C28_OnlyExpiredPostsAreSwept ==
    [][(job.pc \in Running /\ job' # job /\ job'.failures = job.failures)
          => LET p == Head(job.oldPosts)
             IN /\ p < postId
                /\ p \in DOMAIN posts => posts[p].createdAt < now - SweepHours
                /\ DOMAIN posts \ DOMAIN posts' \subseteq {p}
                /\ \A q \in DOMAIN posts' \ {p} :
                      CommentsOf(Store', q) = CommentsOf(Store, q)
                      /\ RowsOfPost(Store', q) = RowsOfPost(Store, q)]_vars

\* the job listed posts 1 and 2; a request deleted post 2 before the job came to it,
\* and the job has deleted post 1
C28_Witness ==
    /\ job.pc = "deleteComments"
    /\ job.oldPosts = <<2>>
    /\ DOMAIN posts = {}
    /\ last.op = "deletePost"
    /\ last.postId = 1

====
